---- MODULE Spec2Model ----
(***************************************************************************)
(* Model of src/main.py: the asyncio image downloader.                     *)
(*                                                                         *)
(* One worker (download_image coroutine) per row of the URL column, all    *)
(* sharing an asyncio.Semaphore, the err_log dictionary and the global     *)
(* consecutive_failures counter.  Coroutines are scheduled cooperatively:  *)
(* the code between two awaits is one atomic step, so every action below   *)
(* runs from one suspension point of the code to the next one.             *)
(*                                                                         *)
(* Strings are sequences of one-character strings, so that startswith,     *)
(* urlparse, os.path.basename and os.path.splitext are computed the way    *)
(* the library computes them.                                              *)
(***************************************************************************)
EXTENDS Integers, Sequences, FiniteSets, TLC

(***************************************************************************)
(* Bounds of the model.                                                    *)
(***************************************************************************)
\* rows of the URL column in the concurrency specification
NumTasks == 3
\* rows of the URL column in the file-name specification
NumUrlTasks == 1
\* rows of the URL column in the termination specification
NumLiveTasks == 2
\* max_concurrent_downloads ranges over -1..MaxDls
MaxDls == 2
\* CONSECUTIVE_FAILURE_THRESHOLD ranges over 1..MaxThreshold; line 62 sets
\* it to 100, and download_image depends on it only through the comparison
\* of line 119
MaxThreshold == 2

(***************************************************************************)
(* Strings.                                                                *)
(***************************************************************************)
\* str.find(c): index (from 1) of the first c in s, 0 when there is none
RECURSIVE FindFrom(_, _, _)
FindFrom(s, c, i) ==
    IF i > Len(s) THEN 0
    ELSE IF s[i] = c THEN i
    ELSE FindFrom(s, c, i + 1)

Find(s, c) == FindFrom(s, c, 1)

\* str.rfind(c): index (from 1) of the last c in s, 0 when there is none
RECURSIVE RFindFrom(_, _, _)
RFindFrom(s, c, i) ==
    IF i < 1 THEN 0
    ELSE IF s[i] = c THEN i
    ELSE RFindFrom(s, c, i - 1)

RFind(s, c) == RFindFrom(s, c, Len(s))

\* s[i:] with i counted from 1
Tail_(s, i) == SubSeq(s, i, Len(s))

\* s[:i] exclusive of position i, counted from 1
Head_(s, i) == SubSeq(s, 1, i - 1)

\* str.startswith(p)
StartsWith(s, p) == Len(s) >= Len(p) /\ SubSeq(s, 1, Len(p)) = p

\* str.replace(a, b) for one-character a and b
Replace(s, a, b) == [i \in 1..Len(s) |-> IF s[i] = a THEN b ELSE s[i]]

\* str(n) for a natural number n
DigitChars == <<"0", "1", "2", "3", "4", "5", "6", "7", "8", "9">>

RECURSIVE IntToStr(_)
IntToStr(n) ==
    IF n < 10 THEN <<DigitChars[n + 1]>>
    ELSE IntToStr(n \div 10) \o <<DigitChars[(n % 10) + 1]>>

\* str.lower() on the letters of the model's alphabet
LowerChar(c) ==
    CASE c = "P" -> "p"
      [] c = "N" -> "n"
      [] c = "G" -> "g"
      [] OTHER -> c

Lower(s) == [i \in 1..Len(s) |-> LowerChar(s[i])]

Letters == {"a", "b", "f", "g", "h", "i", "j", "n", "p", "s", "t", "x", "y",
            "z", "P", "N", "G"}

\* urllib.parse.scheme_chars, restricted to the model's alphabet
SchemeChars == Letters \cup {"0", "1", "2", "3", "+", "-", "."}

(***************************************************************************)
(* urllib.parse.urlparse, as far as main.py uses it: scheme and path.      *)
(* The alphabet has no ';', no whitespace and no control characters.       *)
(***************************************************************************)
\* the smallest positive value among a, b, c; 0 when all are 0
MinPos(a, b, c) ==
    LET S == {a, b, c} \ {0}
    IN  IF S = {} THEN 0 ELSE CHOOSE m \in S : \A n \in S : m <= n

\* urlsplit: url[:i] is a scheme when i > 0, url[0] is a letter and every
\* character of url[:i] is a scheme character
HasScheme(s) ==
    LET i == Find(s, ":")
    IN  /\ i > 1
        /\ s[1] \in Letters
        /\ \A k \in 1..(i - 1) : s[k] \in SchemeChars

UrlScheme(s) == IF HasScheme(s) THEN Lower(Head_(s, Find(s, ":"))) ELSE <<>>

AfterScheme(s) == IF HasScheme(s) THEN Tail_(s, Find(s, ":") + 1) ELSE s

\* _splitnetloc(url, 2): the rest after the network location
AfterNetloc(s) ==
    IF StartsWith(s, <<"/", "/">>)
    THEN LET r == Tail_(s, 3)
             d == MinPos(Find(r, "/"), Find(r, "?"), Find(r, "#"))
         IN  IF d = 0 THEN <<>> ELSE Tail_(r, d)
    ELSE s

\* url.split('#', 1)[0], then url.split('?', 1)[0]
CutAt(s, c) == IF Find(s, c) = 0 THEN s ELSE Head_(s, Find(s, c))

UrlPath(s) == CutAt(CutAt(AfterNetloc(AfterScheme(s)), "#"), "?")

(***************************************************************************)
(* os.path (posixpath).                                                    *)
(***************************************************************************)
\* os.path.basename(p): p[p.rfind('/') + 1:]
Basename(p) == Tail_(p, RFind(p, "/") + 1)

\* genericpath._splitext: the extension starts at the last dot after the
\* last separator, unless only dots come before it in the file name
RECURSIVE OnlyDots(_, _, _)
OnlyDots(p, from, to) ==
    IF from >= to THEN TRUE
    ELSE IF p[from] # "." THEN FALSE
    ELSE OnlyDots(p, from + 1, to)

SplitExt(p) ==
    LET sepIndex == RFind(p, "/")
        dotIndex == RFind(p, ".")
    IN  IF dotIndex > sepIndex /\ ~OnlyDots(p, sepIndex + 1, dotIndex)
        THEN Tail_(p, dotIndex)
        ELSE <<>>

(***************************************************************************)
(* get_file_extension and the file name download_image writes to.          *)
(***************************************************************************)
AllowedExts ==
    { <<".", "j", "p", "g">>, <<".", "j", "p", "e", "g">>,
      <<".", "p", "n", "g">>, <<".", "g", "i", "f">>,
      <<".", "b", "m", "p">>, <<".", "w", "e", "b", "p">> }

DefaultExt == <<".", "j", "p", "g">>

get_file_extension(url, default_ext) ==
    LET ext == SplitExt(UrlPath(url))
    IN  IF ext \in AllowedExts THEN ext ELSE default_ext

\* lines 84-88: the name of the file a successful download is written to
FileName(url, index) ==
    LET original_filename == Basename(UrlPath(url))
        ext == get_file_extension(url, DefaultExt)
    IN  IF original_filename = <<>>
        THEN <<"i", "m", "a", "g", "e", "_">> \o IntToStr(index) \o ext
        ELSE original_filename

(***************************************************************************)
(* Cell values of the URL column: strings, and the non-string values       *)
(* pandas yields for empty or numeric cells.                               *)
(***************************************************************************)
Str(s) == [type |-> "str", val |-> s]

HTTP == <<"h", "t", "t", "p">>
HostX == <<":", "/", "/", "x">>

U_nan   == [type |-> "float", val |-> <<"n", "a", "n">>]
U_empty == Str(<<>>)
U_ftp   == Str(<<"f", "t", "p">> \o HostX \o <<"/", "y", ".", "p", "n", "g">>)
U_png   == Str(HTTP \o HostX \o <<"/", "a", ".", "p", "n", "g">>)
U_txt   == Str(HTTP \o HostX \o <<"/", "a", ".", "t", "x", "t">>)
U_noext == Str(HTTP \o HostX \o <<"/", "a">>)
U_dir   == Str(HTTP \o HostX \o <<"/">>)
U_host  == Str(HTTP \o <<"s">> \o HostX)
U_dotdir == Str(HTTP \o HostX \o <<"/", "a", ".", "b", "/">>)
U_upper == Str(HTTP \o HostX \o <<"/", "a", ".", "P", "N", "G">>)
U_hidden == Str(HTTP \o HostX \o <<"/", ".", "p", "n", "g">>)
U_query == Str(HTTP \o HostX \o <<"/", "b", ".", "g", "i", "f", "?", "a", ".", "t", "x", "t">>)
U_httpz == Str(HTTP \o <<"z">> \o HostX \o <<"/", "a", ".", "p", "n", "g">>)
U_bare  == Str(HTTP \o <<"x">>)

\* the cell values of the file-name specification
AllUrls == { U_nan, U_empty, U_ftp, U_png, U_txt, U_noext, U_dir, U_host,
             U_dotdir, U_upper, U_hidden, U_query, U_httpz, U_bare }

\* the cell values of the concurrency specification
RunUrls == { U_ftp, U_png }

\* line 72
IsValidUrl(url) == url.type = "str" /\ StartsWith(url.val, HTTP)

\* the url begins with an HTTP(S) scheme
HasHttpScheme(url) ==
    /\ url.type = "str"
    /\ UrlScheme(url.val) \in {HTTP, HTTP \o <<"s">>}

\* lines 81-82: client.get and raise_for_status return a response ("ok"),
\* raise httpx.HTTPStatusError ("status") or raise httpx.RequestError
\* ("request"); httpx raises UnsupportedProtocol, a RequestError, for a
\* url whose scheme is neither http nor https
FetchResults(url) ==
    IF HasHttpScheme(url) THEN {"ok", "status", "request"} ELSE {"request"}

\* lines 84-88 for every valid url and every index of the model: FileName
\* does not depend on the state, so it is tabulated once
FileNames ==
    [u \in {t \in AllUrls : IsValidUrl(t)} |->
        [i \in (0..(NumTasks - 1)) \cup (0..(NumUrlTasks - 1))
                 \cup (0..(NumLiveTasks - 1)) |-> FileName(u.val, i)]]

(***************************************************************************)
(* Program constants.                                                      *)
(***************************************************************************)
\* line 65: the default of download_image's max_retries, which get_images
\* never overrides
max_retries == 3

\* line 37: current_time, "%Y-%m-%d %H:%M:%S" shortened to its separators
current_time == <<"1", "-", "2", " ", "3", ":", "4">>

\* variant: the trip ends the process with status 0
ExitCodeOnTripZero == 1 - 1

\* line 123: sys.exit(1)
ExitCodeOnTrip == 1

\* variant: the trip leaves notes empty
TripNoteEmpty == ""

\* line 121
TripNote == "Consecutive failure threshold reached. Stopping the program."

(***************************************************************************)
(* State.                                                                  *)
(***************************************************************************)
VARIABLES
    tasks,                     \* df[column_name]: the cell values, by row
    max_concurrent_downloads,  \* config["max_concurrent_downloads"]
    CONSECUTIVE_FAILURE_THRESHOLD,
    main_pc,                   \* position of main / get_images
    exit_status,               \* -1 while the process runs, then its status
    sem_value,                 \* asyncio.Semaphore._value
    pc,                        \* position of each download_image coroutine
    retries,                   \* the local retries of each coroutine
    consecutive_failures,      \* the global counter
    err_log,                   \* the shared error_log dictionary
    report_files,              \* report files of the working directory
    output,                    \* output directory: name -> response body
    \* history of the run, read by the properties only
    attempts,                  \* client.get calls made by each worker
    delays,                    \* backoff sleeps started by each worker
    outcome,                   \* the terminal outcome of each worker
    writes,                    \* file names each worker has written
    reports,                   \* the reports log_errors has written, in order
    exhaust_run                \* retry exhaustions since the last success

vars == <<tasks, max_concurrent_downloads, CONSECUTIVE_FAILURE_THRESHOLD,
          main_pc, exit_status, sem_value, pc, retries,
          consecutive_failures, err_log, report_files, output,
          attempts, delays, outcome, writes, reports, exhaust_run>>

config == <<tasks, max_concurrent_downloads, CONSECUTIVE_FAILURE_THRESHOLD>>

Workers == 1..Len(tasks)

\* dict[k] = v
Put(d, k, v) == [x \in (DOMAIN d) \cup {k} |-> IF x = k THEN v ELSE d[x]]

EmptyDict == [x \in {} |-> 0]

(***************************************************************************)
(* log_errors, lines 126-154.                                              *)
(***************************************************************************)
NumErrors(log) ==
    Cardinality(DOMAIN log.invalid_urls)
        + Cardinality(DOMAIN log.download_errors)

\* lines 129-134: the dictionary after log_errors has updated METADATA
LoggedErrLog(log) ==
    LET m1 == Put(log.METADATA, "num_urls", NumErrors(log))
        m2 == IF NumErrors(log) > 0
              THEN Put(m1, "num_errors", NumErrors(log))
              ELSE m1
    IN  [log EXCEPT !.METADATA = m2]

BaseFilename == <<"error_log.json">>

\* lines 148-151: the name of the file the report is written to
ReportName(log, files) ==
    IF BaseFilename \in DOMAIN files
    THEN <<"error_log_">>
             \o Replace(Replace(log.METADATA.timestamp, ":", "-"), " ", "_")
             \o <<".json">>
    ELSE BaseFilename

\* lines 153-154
FilesAfterLog(log, files) ==
    Put(files, ReportName(log, files), LoggedErrLog(log))

(***************************************************************************)
(* Initial states: the configuration and the spreadsheet are read, main    *)
(* has built error_log (lines 28-41).                                      *)
(***************************************************************************)
\* a report left by an earlier run
OldReport ==
    [invalid_urls |-> EmptyDict, download_errors |-> EmptyDict,
     METADATA |-> [timestamp |-> <<"0">>, notes |-> "", num_urls |-> 0]]

InitRun ==
    /\ max_concurrent_downloads \in (-1)..MaxDls
    /\ CONSECUTIVE_FAILURE_THRESHOLD \in 1..MaxThreshold
    /\ main_pc = "main"
    /\ exit_status = -1
    /\ sem_value = 0
    /\ pc = [w \in Workers |-> "uncreated"]
    /\ retries = [w \in Workers |-> 0]
    /\ consecutive_failures = 0
    /\ err_log = [invalid_urls |-> EmptyDict, download_errors |-> EmptyDict,
                  METADATA |-> [timestamp |-> current_time, notes |-> ""]]
    /\ output = EmptyDict
    /\ attempts = [w \in Workers |-> 0]
    /\ delays = [w \in Workers |-> <<>>]
    /\ outcome = [w \in Workers |-> "None"]
    /\ writes = [w \in Workers |-> <<>>]
    /\ reports = <<>>
    /\ exhaust_run = 0

\* a working directory without reports
Init ==
    /\ tasks \in [1..NumTasks -> RunUrls]
    /\ report_files = EmptyDict
    /\ InitRun

\* the url lists of the termination specification
InitLive ==
    /\ tasks \in [1..NumLiveTasks -> RunUrls]
    /\ report_files = EmptyDict
    /\ InitRun

\* a working directory with or without the report of an earlier run
InitUrls ==
    /\ tasks \in [1..NumUrlTasks -> AllUrls]
    /\ report_files \in {EmptyDict, Put(EmptyDict, BaseFilename, OldReport)}
    /\ InitRun

(***************************************************************************)
(* main and get_images.                                                    *)
(***************************************************************************)
\* a call of log_errors(err_log), given the dictionary it is called with
LogErrors(log) ==
    /\ err_log' = LoggedErrLog(log)
    /\ report_files' = FilesAfterLog(log, report_files)
    /\ reports' = Append(reports, [name |-> ReportName(log, report_files),
                                   content |-> LoggedErrLog(log)])

\* line 43: main writes a first report before the downloads start
MainLogErrors ==
    /\ main_pc = "main"
    /\ LogErrors(err_log)
    /\ main_pc' = "get_images"
    /\ UNCHANGED <<config, exit_status, sem_value, pc, retries,
                   consecutive_failures, output, attempts, delays, outcome,
                   writes, exhaust_run>>

\* line 175: asyncio.Semaphore(value) raises ValueError for a negative
\* value; nothing catches it and the interpreter exits with status 1
SemaphoreValueError ==
    /\ main_pc = "get_images"
    /\ max_concurrent_downloads < 0
    /\ main_pc' = "exited"
    /\ exit_status' = 1
    /\ UNCHANGED <<config, sem_value, pc, retries, consecutive_failures,
                   err_log, report_files, output, attempts, delays, outcome,
                   writes, reports, exhaust_run>>

\* lines 175-192: the semaphore is created, one coroutine per row is
\* created and get_images awaits them in completion order
GetImagesStart ==
    /\ main_pc = "get_images"
    /\ max_concurrent_downloads >= 0
    /\ sem_value' = max_concurrent_downloads
    /\ pc' = [w \in Workers |-> "pending"]
    /\ main_pc' = "awaiting"
    /\ UNCHANGED <<config, exit_status, retries, consecutive_failures,
                   err_log, report_files, output, attempts, delays, outcome,
                   writes, reports, exhaust_run>>

\* variant: get_images awaits the first completion only
AllCompletedAny == \E w \in Workers : pc[w] = "done"

\* lines 189-192: the loop over as_completed ends when every coroutine
\* has completed
AllCompleted == \A w \in Workers : pc[w] = "done"

\* line 194 and the return of main: every coroutine has completed, the
\* final report is written and the process ends with status 0
GetImagesFinish ==
    /\ main_pc = "awaiting"
    /\ AllCompleted
    /\ LogErrors(err_log)
    /\ main_pc' = "exited"
    /\ exit_status' = 0
    /\ UNCHANGED <<config, sem_value, pc, retries, consecutive_failures,
                   output, attempts, delays, outcome, writes, exhaust_run>>

(***************************************************************************)
(* download_image, lines 65-123.  Worker w handles row w, index w - 1.     *)
(***************************************************************************)
\* variant: a semaphore that never suspends its caller
SemLockedNever == sem_value < 0

\* line 70: async with semaphore suspends while the semaphore is locked
SemLocked == sem_value = 0

\* variant: an off-by-one retry test
CanRetryOnceMore(r) == r <= max_retries

\* lines 79 and 110: retries < max_retries
CanRetry(r) == r < max_retries

\* line 111: wait_time = 2 ** retries
WaitTime(r) == 2 ^ r

\* variant: the trip waits for the counter to exceed the threshold
ThresholdExceeded(cf) == cf > CONSECUTIVE_FAILURE_THRESHOLD

\* line 119
ThresholdReached(cf) == cf >= CONSECUTIVE_FAILURE_THRESHOLD

\* lines 103 and 108
ErrorEntry(w, kind) == [url |-> tasks[w], error |-> kind]

RecordDownloadError(w, kind) ==
    [err_log EXCEPT
        !.download_errors = Put(@, w, ErrorEntry(w, kind))]

\* variant: the invalid url is recorded but the return of line 74 is
\* missing, so the worker goes on to fetch it
SkipInvalidFallThrough(w) ==
    /\ main_pc = "awaiting"
    /\ pc[w] = "pending"
    /\ ~SemLocked
    /\ ~IsValidUrl(tasks[w])
    /\ err_log' = [err_log EXCEPT !.invalid_urls = Put(@, w, tasks[w])]
    /\ sem_value' = sem_value - 1
    /\ retries' = [retries EXCEPT ![w] = 0]
    /\ attempts' = [attempts EXCEPT ![w] = @ + 1]
    /\ pc' = [pc EXCEPT ![w] = "fetching"]
    /\ UNCHANGED <<config, main_pc, exit_status, consecutive_failures,
                   report_files, output, delays, outcome, writes, reports,
                   exhaust_run>>

\* lines 70-74: the slot is acquired, the url is found invalid and recorded,
\* and the return releases the slot, without a suspension in between
SkipInvalid(w) ==
    /\ main_pc = "awaiting"
    /\ pc[w] = "pending"
    /\ ~SemLocked
    /\ ~IsValidUrl(tasks[w])
    /\ err_log' = [err_log EXCEPT !.invalid_urls = Put(@, w, tasks[w])]
    /\ sem_value' = (sem_value - 1) + 1
    /\ pc' = [pc EXCEPT ![w] = "done"]
    /\ outcome' = [outcome EXCEPT ![w] = "Skipped"]
    /\ UNCHANGED <<config, main_pc, exit_status, retries,
                   consecutive_failures, report_files, output, attempts,
                   delays, writes, reports, exhaust_run>>

\* lines 70-81: the slot is acquired, the url is valid and the first
\* client.get is issued
BeginFetch(w) ==
    /\ main_pc = "awaiting"
    /\ pc[w] = "pending"
    /\ ~SemLocked
    /\ IsValidUrl(tasks[w])
    /\ sem_value' = sem_value - 1
    /\ retries' = [retries EXCEPT ![w] = 0]
    /\ CanRetry(0)
    /\ attempts' = [attempts EXCEPT ![w] = @ + 1]
    /\ pc' = [pc EXCEPT ![w] = "fetching"]
    /\ UNCHANGED <<config, main_pc, exit_status, consecutive_failures,
                   err_log, report_files, output, delays, outcome, writes,
                   reports, exhaust_run>>

\* variant: a successful download leaves consecutive_failures as it is
FetchOkKeepsCounter(w) ==
    /\ main_pc = "awaiting"
    /\ pc[w] = "fetching"
    /\ "ok" \in FetchResults(tasks[w])
    /\ LET name == FileNames[tasks[w]][w - 1]
       IN  /\ output' = Put(output, name, [body_of |-> tasks[w].val])
           /\ writes' = [writes EXCEPT ![w] = Append(@, name)]
    /\ exhaust_run' = 0
    /\ outcome' = [outcome EXCEPT ![w] = "Succeeded"]
    /\ pc' = [pc EXCEPT ![w] = "pacing"]
    /\ UNCHANGED <<config, main_pc, exit_status, sem_value, retries,
                   consecutive_failures, err_log, report_files, attempts,
                   delays, reports>>

\* lines 81-98: the response is written to the output directory, the
\* counter is reset and the pacing sleep starts
FetchOk(w) ==
    /\ main_pc = "awaiting"
    /\ pc[w] = "fetching"
    /\ "ok" \in FetchResults(tasks[w])
    /\ LET name == FileNames[tasks[w]][w - 1]
       IN  /\ output' = Put(output, name, [body_of |-> tasks[w].val])
           /\ writes' = [writes EXCEPT ![w] = Append(@, name)]
    /\ consecutive_failures' = 0
    /\ exhaust_run' = 0
    /\ outcome' = [outcome EXCEPT ![w] = "Succeeded"]
    /\ pc' = [pc EXCEPT ![w] = "pacing"]
    /\ UNCHANGED <<config, main_pc, exit_status, sem_value, retries,
                   err_log, report_files, attempts, delays, reports>>

\* variant: the worker leaves after the pacing sleep without releasing its
\* slot
PacingDoneKeepsSlot(w) ==
    /\ main_pc = "awaiting"
    /\ pc[w] = "pacing"
    /\ pc' = [pc EXCEPT ![w] = "done"]
    /\ UNCHANGED <<config, main_pc, exit_status, sem_value, retries,
                   consecutive_failures, err_log, report_files, output,
                   attempts, delays, outcome, writes, reports, exhaust_run>>

\* lines 98-99: the pacing sleep ends, the loop is left and the slot released
PacingDone(w) ==
    /\ main_pc = "awaiting"
    /\ pc[w] = "pacing"
    /\ pc' = [pc EXCEPT ![w] = "done"]
    /\ sem_value' = sem_value + 1
    /\ UNCHANGED <<config, main_pc, exit_status, retries,
                   consecutive_failures, err_log, report_files, output,
                   attempts, delays, outcome, writes, reports, exhaust_run>>

\* variant: HTTPStatusError is recorded and retried like a RequestError
FetchStatusErrorRetried(w) ==
    /\ main_pc = "awaiting"
    /\ pc[w] = "fetching"
    /\ "status" \in FetchResults(tasks[w])
    /\ CanRetry(retries[w] + 1)
    /\ err_log' = RecordDownloadError(w, "status")
    /\ outcome' = [outcome EXCEPT ![w] = "FailedPermanent"]
    /\ retries' = [retries EXCEPT ![w] = @ + 1]
    /\ pc' = [pc EXCEPT ![w] = "backoff"]
    /\ UNCHANGED <<config, main_pc, exit_status, sem_value,
                   consecutive_failures, report_files, output, attempts,
                   delays, writes, reports, exhaust_run>>

\* lines 101-104: HTTPStatusError is recorded and the loop is left
FetchStatusError(w) ==
    /\ main_pc = "awaiting"
    /\ pc[w] = "fetching"
    /\ "status" \in FetchResults(tasks[w])
    /\ err_log' = RecordDownloadError(w, "status")
    /\ outcome' = [outcome EXCEPT ![w] = "FailedPermanent"]
    /\ pc' = [pc EXCEPT ![w] = "done"]
    /\ sem_value' = sem_value + 1
    /\ UNCHANGED <<config, main_pc, exit_status, retries,
                   consecutive_failures, report_files, output, attempts,
                   delays, writes, reports, exhaust_run>>

\* variant: a RequestError that is retried also counts as a consecutive
\* failure
RetryAfterRequestErrorCounts(w) ==
    /\ main_pc = "awaiting"
    /\ pc[w] = "fetching"
    /\ "request" \in FetchResults(tasks[w])
    /\ CanRetry(retries[w] + 1)
    /\ err_log' = RecordDownloadError(w, "request")
    /\ retries' = [retries EXCEPT ![w] = @ + 1]
    /\ delays' = [delays EXCEPT ![w] = Append(@, WaitTime(retries[w] + 1))]
    /\ consecutive_failures' = consecutive_failures + 1
    /\ pc' = [pc EXCEPT ![w] = "backoff"]
    /\ UNCHANGED <<config, main_pc, exit_status, sem_value, report_files,
                   output, attempts, outcome, writes, reports, exhaust_run>>

\* lines 106-113: RequestError is recorded and the backoff sleep starts
RetryAfterRequestError(w) ==
    /\ main_pc = "awaiting"
    /\ pc[w] = "fetching"
    /\ "request" \in FetchResults(tasks[w])
    /\ CanRetry(retries[w] + 1)
    /\ err_log' = RecordDownloadError(w, "request")
    /\ retries' = [retries EXCEPT ![w] = @ + 1]
    /\ delays' = [delays EXCEPT ![w] = Append(@, WaitTime(retries[w] + 1))]
    /\ pc' = [pc EXCEPT ![w] = "backoff"]
    /\ UNCHANGED <<config, main_pc, exit_status, sem_value,
                   consecutive_failures, report_files, output, attempts,
                   outcome, writes, reports, exhaust_run>>

\* lines 113, 79-81: the backoff sleep ends and client.get is issued again
BackoffDone(w) ==
    /\ main_pc = "awaiting"
    /\ pc[w] = "backoff"
    /\ CanRetry(retries[w])
    /\ attempts' = [attempts EXCEPT ![w] = @ + 1]
    /\ pc' = [pc EXCEPT ![w] = "fetching"]
    /\ UNCHANGED <<config, main_pc, exit_status, sem_value, retries,
                   consecutive_failures, err_log, report_files, output,
                   delays, outcome, writes, reports, exhaust_run>>

\* variant: the worker that exhausts its retries leaves without releasing
\* its slot
ExhaustRetriesKeepsSlot(w) ==
    /\ main_pc = "awaiting"
    /\ pc[w] = "fetching"
    /\ "request" \in FetchResults(tasks[w])
    /\ ~CanRetry(retries[w] + 1)
    /\ ~ThresholdReached(consecutive_failures + 1)
    /\ err_log' = RecordDownloadError(w, "request")
    /\ retries' = [retries EXCEPT ![w] = @ + 1]
    /\ consecutive_failures' = consecutive_failures + 1
    /\ exhaust_run' = exhaust_run + 1
    /\ outcome' = [outcome EXCEPT ![w] = "FailedTransient"]
    /\ pc' = [pc EXCEPT ![w] = "done"]
    /\ UNCHANGED <<config, main_pc, exit_status, sem_value, report_files,
                   output, attempts, delays, writes, reports>>

\* lines 106-119, 79: the last RequestError is recorded, the counter is
\* incremented below the threshold, the loop ends and the slot is released
ExhaustRetries(w) ==
    /\ main_pc = "awaiting"
    /\ pc[w] = "fetching"
    /\ "request" \in FetchResults(tasks[w])
    /\ ~CanRetry(retries[w] + 1)
    /\ ~ThresholdReached(consecutive_failures + 1)
    /\ err_log' = RecordDownloadError(w, "request")
    /\ retries' = [retries EXCEPT ![w] = @ + 1]
    /\ consecutive_failures' = consecutive_failures + 1
    /\ exhaust_run' = exhaust_run + 1
    /\ outcome' = [outcome EXCEPT ![w] = "FailedTransient"]
    /\ pc' = [pc EXCEPT ![w] = "done"]
    /\ sem_value' = sem_value + 1
    /\ UNCHANGED <<config, main_pc, exit_status, report_files, output,
                   attempts, delays, writes, reports>>

\* variant: the counter reaches the threshold, the note is set and the
\* report is written, but sys.exit is not called: the worker leaves the loop
\* and releases its slot
TripWithoutExit(w) ==
    /\ main_pc = "awaiting"
    /\ pc[w] = "fetching"
    /\ "request" \in FetchResults(tasks[w])
    /\ ~CanRetry(retries[w] + 1)
    /\ ThresholdReached(consecutive_failures + 1)
    /\ LogErrors([RecordDownloadError(w, "request") EXCEPT
                      !.METADATA.notes = TripNote])
    /\ retries' = [retries EXCEPT ![w] = @ + 1]
    /\ consecutive_failures' = consecutive_failures + 1
    /\ exhaust_run' = exhaust_run + 1
    /\ outcome' = [outcome EXCEPT ![w] = "FailedTransient"]
    /\ pc' = [pc EXCEPT ![w] = "done"]
    /\ sem_value' = sem_value + 1
    /\ UNCHANGED <<config, main_pc, exit_status, output, attempts, delays,
                   writes>>

\* lines 106-123: the last RequestError is recorded, the counter reaches the
\* threshold, the note is set, the report is written and sys.exit(1) raises
\* SystemExit.  SystemExit leaves the event loop; asyncio.run then cancels
\* every coroutine that has not completed (each leaves async with and
\* releases its slot, none runs any other code) and the process ends with
\* status 1; line 194 is not reached.
Trip(w) ==
    /\ main_pc = "awaiting"
    /\ pc[w] = "fetching"
    /\ "request" \in FetchResults(tasks[w])
    /\ ~CanRetry(retries[w] + 1)
    /\ ThresholdReached(consecutive_failures + 1)
    /\ LogErrors([RecordDownloadError(w, "request") EXCEPT
                      !.METADATA.notes = TripNote])
    /\ retries' = [retries EXCEPT ![w] = @ + 1]
    /\ consecutive_failures' = consecutive_failures + 1
    /\ exhaust_run' = exhaust_run + 1
    /\ outcome' = [outcome EXCEPT ![w] = "FailedTransient"]
    /\ pc' = [v \in Workers |->
                 IF v = w THEN "exited"
                 ELSE IF pc[v] = "done" THEN "done"
                 ELSE "cancelled"]
    /\ sem_value' = max_concurrent_downloads
    /\ main_pc' = "exited"
    /\ exit_status' = ExitCodeOnTrip
    /\ UNCHANGED <<config, output, attempts, delays, writes>>

Next ==
    \/ MainLogErrors
    \/ SemaphoreValueError
    \/ GetImagesStart
    \/ GetImagesFinish
    \/ \E w \in Workers : SkipInvalid(w)
    \/ \E w \in Workers : BeginFetch(w)
    \/ \E w \in Workers : FetchOk(w)
    \/ \E w \in Workers : PacingDone(w)
    \/ \E w \in Workers : FetchStatusError(w)
    \/ \E w \in Workers : RetryAfterRequestError(w)
    \/ \E w \in Workers : BackoffDone(w)
    \/ \E w \in Workers : ExhaustRetries(w)
    \/ \E w \in Workers : Trip(w)

Spec == Init /\ [][Next]_vars

SpecUrls == InitUrls /\ [][Next]_vars

\* The event loop of asyncio.run (line 48) runs a ready callback whenever
\* there is one, and every client.get and asyncio.sleep is taken to return:
\* a step that stays possible is eventually taken.
SpecLive == InitLive /\ [][Next]_vars /\ WF_vars(Next)

(***************************************************************************)
(* Vocabulary of the properties.                                           *)
(***************************************************************************)
\* workers past the acquisition of the semaphore
Inside == {w \in Workers : pc[w] \in {"fetching", "backoff", "pacing"}}

\* a worker has raised SystemExit at line 123
Tripped == \E w \in Workers : pc[w] = "exited"

Exited == main_pc = "exited"

LastReport == reports[Len(reports)].content

(***************************************************************************)
(* C1.  For every max_concurrent_downloads >= 1, the number of workers     *)
(* past the acquisition of the semaphore (fetching, in a backoff sleep or  *)
(* in the pacing sleep) never exceeds max_concurrent_downloads.            *)
(***************************************************************************)
C1_BoundedConcurrency ==
    max_concurrent_downloads >= 1 =>
        Cardinality(Inside) <= max_concurrent_downloads

\* both slots are taken and a worker with a valid url waits for one
C1_Witness ==
    /\ max_concurrent_downloads = 2
    /\ Cardinality(Inside) = 2
    /\ \E w \in Workers : pc[w] = "pending" /\ IsValidUrl(tasks[w])

(***************************************************************************)
(* C2.  When CONSECUTIVE_FAILURE_THRESHOLD tasks have exhausted their      *)
(* retries with no success in between, the run has tripped: the process    *)
(* has ended with status 1, no worker is waiting, fetching or sleeping,    *)
(* and no fetch attempt is made from then on.                              *)
(***************************************************************************)
C2_TripAtThreshold ==
    /\ [](exhaust_run >= CONSECUTIVE_FAILURE_THRESHOLD =>
            /\ Tripped
            /\ exit_status = 1
            /\ \A w \in Workers : pc[w] \in {"exited", "done", "cancelled"})
    /\ [][Tripped => attempts' = attempts]_vars

\* the second of two consecutive exhaustions trips the run while a worker
\* that has not fetched yet is still waiting for a slot
C2_Witness ==
    /\ CONSECUTIVE_FAILURE_THRESHOLD = 2
    /\ exhaust_run = 2
    /\ Tripped
    /\ \E w \in Workers : pc[w] = "cancelled" /\ attempts[w] = 0

(***************************************************************************)
(* C3.  No task is fetched more than max_retries times; the k-th transient *)
(* failure of a task, k < max_retries, is followed by a backoff of 2^k;    *)
(* a task that ends by exhausting its retries has made exactly max_retries *)
(* attempts with backoffs 2 and 4, is recorded in download_errors, and the *)
(* step that ends it increments consecutive_failures by exactly 1.         *)
(***************************************************************************)
C3_RetryExhaustion ==
    /\ [](\A w \in Workers :
            /\ attempts[w] <= max_retries
            /\ \A k \in 1..Len(delays[w]) : delays[w][k] = 2 ^ k
            /\ pc[w] = "backoff" => Len(delays[w]) = attempts[w]
            /\ outcome[w] = "FailedTransient" =>
                  /\ attempts[w] = max_retries
                  /\ delays[w] = <<2, 4>>
                  /\ w \in DOMAIN err_log.download_errors
                  /\ err_log.download_errors[w].error = "request")
    /\ [][\A w \in Workers :
            (outcome[w] = "None" /\ outcome'[w] = "FailedTransient") =>
                consecutive_failures' = consecutive_failures + 1]_vars

\* a task has exhausted its retries without tripping the run
C3_Witness ==
    \E w \in Workers :
        /\ outcome[w] = "FailedTransient"
        /\ pc[w] = "done"
        /\ attempts[w] = 3
        /\ consecutive_failures = 1

(***************************************************************************)
(* C4.  A task whose url is not a string or does not begin with an HTTP(S) *)
(* scheme is never fetched, writes no file, is never in download_errors    *)
(* and, once its worker is done, is in invalid_urls mapped to the raw url. *)
(***************************************************************************)
C4_InvalidUrlSkipped ==
    \A w \in Workers :
        ~HasHttpScheme(tasks[w]) =>
            /\ attempts[w] = 0
            /\ writes[w] = <<>>
            /\ w \notin DOMAIN err_log.download_errors
            /\ pc[w] = "done" =>
                  /\ w \in DOMAIN err_log.invalid_urls
                  /\ err_log.invalid_urls[w] = tasks[w]

(***************************************************************************)
(* C5.  A task whose fetch raised HTTPStatusError is recorded in           *)
(* download_errors with that error, its worker is done, and no fetch       *)
(* attempt is made for it afterwards, also when earlier attempts of the    *)
(* task failed transiently.                                                *)
(***************************************************************************)
C5_NoRetryAfterStatusError ==
    /\ [](\A w \in Workers :
            outcome[w] = "FailedPermanent" =>
                /\ pc[w] = "done"
                /\ w \in DOMAIN err_log.download_errors
                /\ err_log.download_errors[w].error = "status")
    /\ [][\A w \in Workers :
            outcome[w] = "FailedPermanent" => attempts'[w] = attempts[w]]_vars

\* a status error on the second attempt, after a transient failure
C5_Witness ==
    \E w \in Workers :
        /\ outcome[w] = "FailedPermanent"
        /\ attempts[w] = 2
        /\ delays[w] = <<2>>

(***************************************************************************)
(* C6.  When the process has ended after a start with a valid bound, every *)
(* task has a terminal outcome.                                            *)
(***************************************************************************)
C6_EveryTaskHasOutcome ==
    (Exited /\ max_concurrent_downloads >= 1) =>
        \A w \in Workers : outcome[w] # "None"

(***************************************************************************)
(* C6, amended.  When the run completes normally (every worker finished,   *)
(* final report written, status 0) every task has a terminal outcome, and  *)
(* an outcome once set never changes.                                      *)
(***************************************************************************)
C6_OutcomeOnNormalCompletion ==
    /\ [](exit_status = 0 =>
            /\ Len(reports) = 2
            /\ \A w \in Workers : outcome[w] # "None" /\ pc[w] = "done")
    /\ [][\A w \in Workers :
            outcome[w] # "None" => outcome'[w] = outcome[w]]_vars

\* a normal completion with a skipped, a downloaded and a failed task
C6_Witness ==
    /\ exit_status = 0
    /\ \E w \in Workers : outcome[w] = "Skipped"
    /\ \E w \in Workers : outcome[w] = "Succeeded"
    /\ \E w \in Workers : outcome[w] \in {"FailedPermanent", "FailedTransient"}

(***************************************************************************)
(* C7.  When the process has ended, its status is non-zero if and only if  *)
(* the breaker tripped.                                                    *)
(***************************************************************************)
C7_ExitStatusIffTripped ==
    Exited => (exit_status # 0 <=> Tripped)

(***************************************************************************)
(* C7, amended.  For max_concurrent_downloads >= 1, the process ends with  *)
(* status 1 if the breaker tripped, and otherwise with status 0 after the  *)
(* final report, which holds the error log as it is at the end of the run. *)
(***************************************************************************)
C7_ExitStatusValidBound ==
    (Exited /\ max_concurrent_downloads >= 1) =>
        /\ exit_status # 0 <=> Tripped
        /\ Tripped => exit_status = 1
        /\ ~Tripped =>
              /\ exit_status = 0
              /\ Len(reports) = 2
              /\ LastReport = err_log

\* a run with an invalid url and one exhaustion short of the threshold
C7_Witness ==
    /\ Exited
    /\ exit_status = 0
    /\ CONSECUTIVE_FAILURE_THRESHOLD = 2
    /\ consecutive_failures = 1
    /\ \E w \in Workers : outcome[w] = "Skipped"

(***************************************************************************)
(* C8.  When the breaker has tripped, the last report written holds every  *)
(* invalid_urls and download_errors entry recorded in the run and a        *)
(* non-empty note, and it is on disk; every other report, and every report *)
(* of a run that has not tripped, has an empty note.                       *)
(***************************************************************************)
C8_ReportOnTrip ==
    /\ Tripped =>
          /\ Len(reports) >= 1
          /\ LastReport.invalid_urls = err_log.invalid_urls
          /\ LastReport.download_errors = err_log.download_errors
          /\ \A w \in Workers :
                /\ outcome[w] = "Skipped" =>
                      w \in DOMAIN LastReport.invalid_urls
                /\ outcome[w] \in {"FailedPermanent", "FailedTransient"} =>
                      w \in DOMAIN LastReport.download_errors
          /\ LastReport.METADATA.notes # ""
          /\ report_files[reports[Len(reports)].name] = LastReport
    /\ \A i \in 1..Len(reports) :
          reports[i].content.METADATA.notes # "" =>
              Tripped /\ i = Len(reports)
    /\ ~Tripped => err_log.METADATA.notes = ""

\* a trip after an invalid url and a permanent failure were recorded
C8_Witness ==
    /\ Tripped
    /\ Len(reports) = 2
    /\ LastReport.METADATA.notes = TripNote
    /\ DOMAIN LastReport.invalid_urls # {}
    /\ Cardinality(DOMAIN LastReport.download_errors) >= 2

(***************************************************************************)
(* C9.  Every report written by log_errors has METADATA.num_errors, equal  *)
(* to the number of invalid_urls entries plus download_errors entries.     *)
(***************************************************************************)
C9_NumErrorsInEveryReport ==
    \A i \in 1..Len(reports) :
        /\ "num_errors" \in DOMAIN reports[i].content.METADATA
        /\ reports[i].content.METADATA.num_errors
               = NumErrors(reports[i].content)

(***************************************************************************)
(* C10.  A task whose fetch succeeded has written exactly one file, whose  *)
(* extension is in the allow-list: the extension of the url's path when    *)
(* that is in the allow-list, the default .jpg otherwise.                  *)
(***************************************************************************)
C10_OneFileAllowedExtension ==
    \A w \in Workers :
        outcome[w] = "Succeeded" =>
            /\ Len(writes[w]) = 1
            /\ SplitExt(writes[w][1]) \in AllowedExts
            /\ SplitExt(writes[w][1]) =
                   IF SplitExt(UrlPath(tasks[w].val)) \in AllowedExts
                   THEN SplitExt(UrlPath(tasks[w].val))
                   ELSE DefaultExt

(***************************************************************************)
(* C11.  With a non-positive max_concurrent_downloads the run ends at      *)
(* startup with a fatal error: no worker attempts a fetch, get_images      *)
(* never gets to await workers that wait for a slot, and the process ends  *)
(* with a non-zero status.                                                 *)
(***************************************************************************)
C11_NonPositiveBoundIsFatal ==
    max_concurrent_downloads <= 0 =>
        /\ \A w \in Workers : attempts[w] = 0
        /\ main_pc \in {"main", "get_images", "exited"}
        /\ Exited => exit_status # 0

(***************************************************************************)
(* C12.  No row is a key of both invalid_urls and download_errors, in any  *)
(* reachable state.                                                        *)
(***************************************************************************)
C12_DisjointKeys ==
    (DOMAIN err_log.invalid_urls) \cap (DOMAIN err_log.download_errors) = {}

\* both dictionaries hold a row
C12_Witness ==
    /\ DOMAIN err_log.invalid_urls # {}
    /\ DOMAIN err_log.download_errors # {}

(***************************************************************************)
(* C13.  No step changes or removes a report file that exists: every call  *)
(* of log_errors writes to a name that no file has yet.                    *)
(***************************************************************************)
C13_ReportsNeverOverwritten ==
    [][\A f \in DOMAIN report_files :
          /\ f \in DOMAIN report_files'
          /\ report_files'[f] = report_files[f]]_vars

(***************************************************************************)
(* C14.  A worker with an invalid url needs no slot: while get_images      *)
(* awaits the workers (bound >= 1), the skip of a pending worker with an   *)
(* invalid url can be recorded whatever the number of slots held.          *)
(***************************************************************************)
C14_InvalidUrlNeedsNoSlot ==
    \A w \in Workers :
        ( /\ max_concurrent_downloads >= 1
          /\ main_pc = "awaiting"
          /\ pc[w] = "pending"
          /\ ~IsValidUrl(tasks[w]) ) => ENABLED SkipInvalid(w)

(***************************************************************************)
(* C15.  Once the semaphore exists, the free slots plus the workers past   *)
(* the acquisition add up to max_concurrent_downloads (each such worker    *)
(* holds exactly one slot); a worker that holds a slot keeps it, without   *)
(* going back to waiting, until it is done, cancelled or exited, and it    *)
(* leaves only with its outcome recorded or by a trip; when no worker is   *)
(* left inside, sem_value = max_concurrent_downloads.                      *)
(***************************************************************************)
C15_SlotHeldUntilOutcome ==
    /\ []( (max_concurrent_downloads >= 0
                /\ main_pc \in {"awaiting", "exited"}) =>
             /\ sem_value + Cardinality(Inside) = max_concurrent_downloads
             /\ Exited => /\ Inside = {}
                          /\ sem_value = max_concurrent_downloads )
    /\ [][\A w \in Inside :
             /\ pc'[w] \in {"fetching", "backoff", "pacing",
                            "done", "cancelled", "exited"}
             /\ pc'[w] \in {"fetching", "backoff", "pacing"} =>
                    sem_value' <= max_concurrent_downloads - 1
             /\ pc'[w] \in {"done", "exited"} => outcome'[w] # "None"
             /\ pc'[w] = "cancelled" => Tripped']_vars

\* a trip with slots to give back: the tripping worker and a cancelled
\* worker that had fetched both held a slot, and all slots are free again
C15_Witness ==
    /\ Tripped
    /\ max_concurrent_downloads >= 2
    /\ \E w \in Workers : pc[w] = "cancelled" /\ attempts[w] >= 1
    /\ \E w \in Workers : outcome[w] = "FailedPermanent"
    /\ sem_value = max_concurrent_downloads

(***************************************************************************)
(* C16.  A step changes consecutive_failures only as follows: a step in    *)
(* which a worker's download succeeds sets it to 0, a step in which a      *)
(* worker exhausts its retries increments it by exactly 1, and every other *)
(* step leaves it unchanged.                                               *)
(***************************************************************************)
C16_CounterFrame ==
    [][IF \E w \in Workers : outcome[w] = "None" /\ outcome'[w] = "Succeeded"
       THEN consecutive_failures' = 0
       ELSE IF \E w \in Workers : /\ outcome[w] = "None"
                                  /\ outcome'[w] = "FailedTransient"
                                  /\ retries'[w] = max_retries
       THEN consecutive_failures' = consecutive_failures + 1
       ELSE consecutive_failures' = consecutive_failures]_vars

\* a skip, a permanent failure, retried failures and one exhaustion have
\* happened and the counter is 1
C16_Witness ==
    /\ consecutive_failures = 1
    /\ \E w \in Workers : outcome[w] = "Skipped"
    /\ \E w \in Workers : outcome[w] = "FailedPermanent"
    /\ \E w \in Workers : outcome[w] = "FailedTransient" /\ Len(delays[w]) = 2

(***************************************************************************)
(* C17.  When the run has ended normally, every row of download_errors     *)
(* belongs to a task that ended FailedPermanent or FailedTransient: a task *)
(* that ended Succeeded has no entry.                                      *)
(***************************************************************************)
C17_OnlyFailedTasksInDownloadErrors ==
    (Exited /\ exit_status = 0) =>
        \A w \in DOMAIN err_log.download_errors :
            outcome[w] \in {"FailedPermanent", "FailedTransient"}

(***************************************************************************)
(* C18.  While the run has not tripped, consecutive_failures is below      *)
(* CONSECUTIVE_FAILURE_THRESHOLD (the step that takes it to the threshold  *)
(* is the trip), and it never exceeds the threshold.                       *)
(***************************************************************************)
C18_CounterBelowThresholdUntilTrip ==
    /\ ~Tripped => consecutive_failures < CONSECUTIVE_FAILURE_THRESHOLD
    /\ consecutive_failures <= CONSECUTIVE_FAILURE_THRESHOLD

\* two exhaustions in a row by different workers: the first leaves the
\* counter below the threshold, the second trips with the counter equal to it
C18_Witness ==
    /\ Tripped
    /\ CONSECUTIVE_FAILURE_THRESHOLD = 2
    /\ consecutive_failures = CONSECUTIVE_FAILURE_THRESHOLD
    /\ \E w \in Workers : outcome[w] = "FailedTransient" /\ pc[w] = "done"

(***************************************************************************)
(* C19.  No interleaving of workers loses an update of the counter:        *)
(* consecutive_failures always equals the number of retry exhaustions      *)
(* since the most recent successful download (or since the start).         *)
(***************************************************************************)
C19_CounterEqualsExhaustionsSinceSuccess ==
    consecutive_failures = exhaust_run

\* with two slots, one worker has succeeded and another has exhausted its
\* retries after that success
C19_Witness ==
    /\ max_concurrent_downloads = 2
    /\ consecutive_failures = 1
    /\ \E w \in Workers : outcome[w] = "Succeeded"
    /\ \E w \in Workers : outcome[w] = "FailedTransient"

(***************************************************************************)
(* C20.  With max_concurrent_downloads >= 1 the run eventually ends:       *)
(* either every worker is done, the final report is written and the status *)
(* is 0, or the breaker has tripped and the process has exited with a      *)
(* non-zero status; and a worker that waits for a slot eventually stops    *)
(* waiting.                                                                *)
(***************************************************************************)
C20_Terminates ==
    /\ (max_concurrent_downloads >= 1) ~>
         ( /\ Exited
           /\ \/ /\ exit_status = 0
                 /\ AllCompleted
                 /\ Len(reports) = 2
                 /\ LastReport = err_log
              \/ /\ exit_status # 0
                 /\ Tripped
                 /\ LastReport.METADATA.notes = TripNote )
    /\ \A w \in 1..NumLiveTasks :
         (max_concurrent_downloads >= 1 /\ pc[w] = "pending") ~>
             (pc[w] # "pending")

\* with one slot, both workers have fetched in turn and the run has ended
\* normally with the final report written
C20_Witness ==
    /\ max_concurrent_downloads = 1
    /\ Exited
    /\ exit_status = 0
    /\ \A w \in Workers : attempts[w] >= 1
    /\ Len(reports) = 2

====
